---- MODULE Spec2Model ----
(***************************************************************************)
(* The routing table of the reverse proxy (type ReverseProxy): the map     *)
(* subdomain -> listen port -> backend address -> proxyHandler, its        *)
(* wildcard lookup, the timer-based expiry of handlers and the RWMutex     *)
(* discipline of its operations.                                           *)
(*                                                                         *)
(* Strings are sequences of one-character strings, so that lower-casing,   *)
(* label splitting and glob matching are computed character by character.  *)
(* Time is discrete: one Tick is 1/LifetimeTicks of proxyHandlerLifetime.  *)
(***************************************************************************)
EXTENDS Integers, Sequences, FiniteSets, TLC

\* ---------------------------------------------------------------- bounds

\* Number of clock ticks that make up proxyHandlerLifetime (30 s).
LifetimeTicks == 2

\* Largest number of proxyHandler objects held by the table at one time.
MaxHandles == 4

\* ------------------------------------------------------------- constants

proxyHandlerLifetime == LifetimeTicks

\* cfg.Listen.HTTP: the static list of {listen, target} port pairs.
ListenHTTP ==
  << [ListenPort |-> 80, TargetPort |-> 8080],
     [ListenPort |-> 81, TargetPort |-> 8080] >>

ListenPorts == {ListenHTTP[i].ListenPort : i \in 1..Len(ListenHTTP)}

\* Announced target ports: one that is configured and one that is not.
TargetPorts == {8080, 9090}

\* Ports a request can arrive on.
QueryPorts == ListenPorts

\* Subdomains given to AddSubdomain / RemoveSubdomain.
sFoo     == <<"f", "o", "o">>
sFooUp   == <<"F", "o", "o">>
sPattern == <<"f", "*">>
sBar     == <<"b", "a", "r">>
sFooDot  == <<"f", "o", "o", ".", "x">>

Subdomain == {sFoo, sFooUp, sPattern}

\* Subdomains asked of Exists / findHandler.
Queries == {sFoo, sFooUp, sPattern, sBar, sFooDot}

\* req.Host values seen by ServeHTTPWithPort.
Hosts == { <<"F", "o", "o", ".", "x">>, <<"b", "a", "r">> }

IPAddress == {"a1", "a2"}

NoHandler == [url |-> <<>>, id |-> -1]

\* --------------------------------------------------------------- strings

UpperChars == <<"A","B","C","D","E","F","G","H","I","J","K","L","M",
                "N","O","P","Q","R","S","T","U","V","W","X","Y","Z">>
LowerChars == <<"a","b","c","d","e","f","g","h","i","j","k","l","m",
                "n","o","p","q","r","s","t","u","v","w","x","y","z">>

\* strings.ToLower on one character.
ToLowerChar(c) ==
  IF \E i \in 1..26 : UpperChars[i] = c
  THEN LowerChars[CHOOSE i \in 1..26 : UpperChars[i] = c]
  ELSE c

\* strings.ToLower.
ToLower(s) == [i \in 1..Len(s) |-> ToLowerChar(s[i])]

\* strings.Split(s, ".")[0]: the text before the first dot.
FirstLabel(s) ==
  IF \E i \in 1..Len(s) : s[i] = "."
  THEN SubSeq(s, 1, (CHOOSE i \in 1..Len(s) :
                       s[i] = "." /\ \A j \in 1..(i-1) : s[j] # ".") - 1)
  ELSE s

\* path.Match(pattern, name), its error result dropped as the callers drop it.
\* '*' matches any run of characters other than '/', '?' one such character,
\* '\' quotes the next character, anything else matches itself.  Character
\* classes ('[') do not occur in the names used here.
RECURSIVE PathMatch(_, _)
PathMatch(pattern, name) ==
  IF pattern = <<>> THEN name = <<>>
  ELSE IF Head(pattern) = "*"
    THEN \/ PathMatch(Tail(pattern), name)
         \/ /\ name # <<>>
            /\ Head(name) # "/"
            /\ PathMatch(pattern, Tail(name))
  ELSE IF Head(pattern) = "?"
    THEN /\ name # <<>>
         /\ Head(name) # "/"
         /\ PathMatch(Tail(pattern), Tail(name))
  ELSE IF Head(pattern) = "\\"
    THEN /\ Len(pattern) >= 2
         /\ name # <<>>
         /\ pattern[2] = Head(name)
         /\ PathMatch(Tail(Tail(pattern)), Tail(name))
  ELSE /\ name # <<>>
       /\ Head(pattern) = Head(name)
       /\ PathMatch(Tail(pattern), Tail(name))

\* ------------------------------------------------------------------ maps

\* delete(m, k) on a Go map.
MapDelete(m, k) == [x \in (DOMAIN m) \ {k} |-> m[x]]

\* m[k] = v on a Go map.
MapPut(m, k, v) == [x \in (DOMAIN m) \cup {k} |-> IF x = k THEN v ELSE m[x]]

EmptyMap == [x \in {} |-> 0]

RECURSIVE Perms(_)
\* The orders in which a range over a Go map can produce the keys S.
Perms(S) ==
  IF S = {} THEN {<<>>}
  ELSE UNION {{<<x>> \o p : p \in Perms(S \ {x})} : x \in S}


\* ----------------------------------------------------------------- state

VARIABLES
  domainMap,  \* r.domainMap: subdomain -> listen port -> address -> proxyHandler
  mu,         \* r.mu: [w |-> tasks holding Lock, r |-> tasks holding RLock]
  task,       \* the goroutines calling into the table, each with its position
  crashed,    \* the runtime has stopped the process (fatal error)
  ret,        \* the operation that completed last, with what it returned (for
              \* RemoveSubdomain: the listen ports of the entry it deleted; for
              \* findHandler also late: whether Late held when it was called)
  sinceAdd    \* for <<subdomain, address, targetPort>>: the ticks since
              \* AddSubdomain was last called with them (call) and since that
              \* call returned (done), with no RemoveSubdomain of the subdomain
              \* since; -1 when there is none, or a lifetime or more has passed

vars == <<domainMap, mu, task, crashed, ret, sinceAdd>>

\* ---------------------------------------------------------- proxyHandler

\* newProxyHandler(h): the handler and a timer that fires after the lifetime.
\* timer.rem is the time left until it fires (0: not running), timer.C the
\* number of values waiting in its channel (capacity 1).
newProxyHandler(h) ==
  [handler |-> h, timer |-> [rem |-> proxyHandlerLifetime, C |-> 0]]

\* proxyHandler.alive(): a receive from timer.C that does not block.
alive(h) == h.timer.C = 0

\* The handler after alive() ran on it: a waiting value has been received.
afterAlive(h) == [h EXCEPT !.timer.C = 0]

\* A proxyHandler whose extend() leaves the timer running as it was.
extendNoReset(h) == h

\* proxyHandler.extend(): timer.Reset(lifetime). The channel is left as it is.
extend(h) == [h EXCEPT !.timer.rem = proxyHandlerLifetime]

\* The runtime's timer after one tick: a running timer that reaches zero
\* sends on its channel unless a value is already waiting there.
TickTimer(t) ==
  IF t.rem = 0 THEN t
  ELSE IF t.rem = 1 THEN [rem |-> 0, C |-> 1]
  ELSE [t EXCEPT !.rem = @ - 1]

TickPh(ph) ==
  [p \in DOMAIN ph |->
     [a \in DOMAIN ph[p] |-> [ph[p][a] EXCEPT !.timer = TickTimer(@)]]]

TickMap(dm) == [k \in DOMAIN dm |-> TickPh(dm[k])]

\* --------------------------------------------------------- proxyHandlers

\* The slots <<port, address>> of a proxyHandlers that hold a proxyHandler.
PhSlots(ph) == {s \in (DOMAIN ph) \X IPAddress : s[2] \in DOMAIN ph[s[1]]}

\* The number of proxyHandler objects the table holds.
MapSize(dm) ==
  Cardinality({s \in (DOMAIN dm) \X ListenPorts \X IPAddress :
                 s[2] \in DOMAIN dm[s[1]] /\ s[3] \in DOMAIN dm[s[1]][s[2]]})

\* The identity of the object allocated for the slot <<port, ipaddress>>: it
\* differs from that of the object the slot still refers to, if there is one.
FreshId(ph, port, ipaddress) ==
  IF <<port, ipaddress>> \in PhSlots(ph)
  THEN 1 - ph[port][ipaddress].handler.id
  ELSE 0

RECURSIVE HandlerScan(_, _)
\* The loop of proxyHandlers.Handler over the bucket b, visiting the
\* addresses in the given order: [ok, handler, b] where b is the bucket left.
HandlerScan(b, order) ==
  IF order = <<>> THEN [ok |-> FALSE, handler |-> NoHandler, b |-> b]
  ELSE LET ip == Head(order) IN
       IF alive(b[ip])
       THEN [ok |-> TRUE, handler |-> b[ip].handler, b |-> b]
       ELSE HandlerScan(MapDelete(b, ip), Tail(order))

\* A Handler that calls extend() on the handler it returns.
phHandlerExtends(ph, port, order) ==
  IF port \notin DOMAIN ph \/ DOMAIN ph[port] = {}
  THEN [ok |-> FALSE, handler |-> NoHandler, ph |-> ph]
  ELSE LET s == HandlerScan(ph[port], order) IN
       [ok |-> s.ok, handler |-> s.handler,
        ph |-> MapPut(ph, port,
                 [a \in DOMAIN s.b |->
                    IF s.ok /\ s.b[a].handler = s.handler
                    THEN extend(s.b[a]) ELSE s.b[a]])]

\* proxyHandlers.Handler(port), the map ranged over in the given order:
\* [ok, handler, ph] where ph is the proxyHandlers left.
phHandler(ph, port, order) ==
  IF port \notin DOMAIN ph \/ DOMAIN ph[port] = {}
  THEN [ok |-> FALSE, handler |-> NoHandler, ph |-> ph]
  ELSE LET s == HandlerScan(ph[port], order) IN
       [ok |-> s.ok, handler |-> s.handler, ph |-> MapPut(ph, port, s.b)]

\* proxyHandlers.exists(port, ipaddress): [ok, ph].
phExists(ph, port, ipaddress) ==
  IF port \notin DOMAIN ph THEN [ok |-> FALSE, ph |-> ph]
  ELSE IF ipaddress \notin DOMAIN ph[port] THEN [ok |-> FALSE, ph |-> ph]
  ELSE IF alive(ph[port][ipaddress])
    THEN [ok |-> TRUE,
          ph |-> MapPut(ph, port, MapPut(ph[port], ipaddress, extend(ph[port][ipaddress])))]
  ELSE [ok |-> FALSE, ph |-> MapPut(ph, port, MapDelete(ph[port], ipaddress))]

\* proxyHandlers.add(port, ipaddress, h).
phAdd(ph, port, ipaddress, h) ==
  MapPut(ph, port,
         MapPut(IF port \in DOMAIN ph THEN ph[port] ELSE EmptyMap,
                ipaddress, newProxyHandler(h)))


\* ---------------------------------------------------------- ReverseProxy

MappedTargets == {ListenHTTP[i].TargetPort : i \in 1..Len(ListenHTTP)}

AddKeys == Subdomain \X IPAddress \X MappedTargets

Idle == [pc |-> "idle"]

\* NewReverseProxy: an empty domainMap, the lock free, nothing running.
Init ==
  /\ domainMap = EmptyMap
  /\ mu = [w |-> {}, r |-> {}]
  /\ task = [t \in {"t1", "t2"} |-> Idle]
  /\ crashed = FALSE
  /\ ret = [op |-> "NewReverseProxy", arg |-> <<>>, res |-> <<>>]
  /\ sinceAdd = [k \in AddKeys |-> [call |-> -1, done |-> -1]]

\* The handler AddSubdomain builds for ipaddress and v.TargetPort: the
\* destination URL and the identity of the new object.
NewSingleHostReverseProxy(ipaddress, targetPort, id) ==
  [url |-> <<ipaddress, targetPort>>, id |-> id]

\* One pass of AddSubdomain's loop body for the listen entry v.
AddBody(ph, v, ipaddress) ==
  LET e == phExists(ph, v.ListenPort, ipaddress) IN
  IF e.ok THEN e.ph
  ELSE phAdd(e.ph, v.ListenPort, ipaddress,
             NewSingleHostReverseProxy(ipaddress, v.TargetPort,
                                       FreshId(e.ph, v.ListenPort, ipaddress)))

RECURSIVE AddLoop(_, _, _, _)
\* AddSubdomain's loop over cfg.Listen.HTTP from index i on.
AddLoop(ph, i, ipaddress, targetPort) ==
  IF i > Len(ListenHTTP) THEN ph
  ELSE IF ListenHTTP[i].TargetPort # targetPort
    THEN AddLoop(ph, i + 1, ipaddress, targetPort)
  ELSE AddLoop(AddBody(ph, ListenHTTP[i], ipaddress), i + 1, ipaddress, targetPort)

\* The proxyHandlers AddSubdomain starts from.
AddStart(dm, subdomain) ==
  IF subdomain \in DOMAIN dm THEN dm[subdomain] ELSE EmptyMap

\* An AddSubdomain that takes every target port for that of the first
\* configured listen port.
AddResultAnyTarget(dm, subdomain, ipaddress, targetPort) ==
  MapPut(dm, subdomain,
         AddLoop(AddStart(dm, subdomain), 1, ipaddress, ListenHTTP[1].TargetPort))

\* An AddSubdomain that stores the entry only when a listen port maps to
\* the target port.
AddResultMappedOnly(dm, subdomain, ipaddress, targetPort) ==
  IF targetPort \in {ListenHTTP[i].TargetPort : i \in 1..Len(ListenHTTP)}
  THEN MapPut(dm, subdomain, AddLoop(AddStart(dm, subdomain), 1, ipaddress, targetPort))
  ELSE dm

\* r.domainMap after AddSubdomain(subdomain, ipaddress, targetPort).
AddResult(dm, subdomain, ipaddress, targetPort) ==
  MapPut(dm, subdomain, AddLoop(AddStart(dm, subdomain), 1, ipaddress, targetPort))

\* sinceAdd when AddSubdomain is called, and when it returns.
NoteCall(sa, subdomain, ipaddress, targetPort) ==
  IF targetPort \in MappedTargets
  THEN [sa EXCEPT ![<<subdomain, ipaddress, targetPort>>] =
                    [call |-> 0, done |-> -1]]
  ELSE sa

NoteAdd(sa, subdomain, ipaddress, targetPort) ==
  IF targetPort \in MappedTargets
  THEN [sa EXCEPT ![<<subdomain, ipaddress, targetPort>>].done = 0]
  ELSE sa

\* sinceAdd when RemoveSubdomain returns.
NoteRemove(subdomain) ==
  [k \in AddKeys |->
     IF k[1] = subdomain THEN [call |-> -1, done |-> -1] ELSE sinceAdd[k]]

\* The listen port maps to the target port in cfg.Listen.HTTP.
Maps(listenPort, targetPort) ==
  \E i \in 1..Len(ListenHTTP) :
    ListenHTTP[i].ListenPort = listenPort /\ ListenHTTP[i].TargetPort = targetPort

\* A lifetime or more has passed since AddSubdomain last returned for the
\* subdomain and the target port of the listen port, if it ever did.
Late(subdomain, listenPort) ==
  \A k \in AddKeys :
    (k[1] = subdomain /\ Maps(listenPort, k[3])) => sinceAdd[k].done < 0

Aged(n) == IF n >= 0 /\ n + 1 < LifetimeTicks THEN n + 1 ELSE -1

\* sinceAdd one tick later.
NoteTick ==
  [k \in AddKeys |-> [call |-> Aged(sinceAdd[k].call), done |-> Aged(sinceAdd[k].done)]]

\* The table is quiescent: no goroutine is inside an operation.
Quiet == /\ ~crashed
         /\ mu = [w |-> {}, r |-> {}]
         /\ \A t \in DOMAIN task : task[t].pc = "idle"

AddSubdomain(subdomain, ipaddress, targetPort) ==
  /\ Quiet
  /\ LET dm == AddResult(domainMap, subdomain, ipaddress, targetPort) IN
     /\ MapSize(dm) <= MaxHandles
     /\ domainMap' = dm
  /\ ret' = [op |-> "AddSubdomain", arg |-> <<subdomain, ipaddress, targetPort>>,
             res |-> <<>>]
  /\ sinceAdd' = NoteAdd(NoteCall(sinceAdd, subdomain, ipaddress, targetPort),
                          subdomain, ipaddress, targetPort)
  /\ UNCHANGED <<mu, task, crashed>>

\* A RemoveSubdomain that discards the buckets and keeps the key.
RemoveSubdomainBuckets(subdomain) ==
  /\ Quiet
  /\ domainMap' = IF subdomain \in DOMAIN domainMap
                  THEN MapPut(domainMap, subdomain, EmptyMap) ELSE domainMap
  /\ ret' = [op |-> "RemoveSubdomain", arg |-> <<subdomain>>,
             res |-> DOMAIN AddStart(domainMap, subdomain)]
  /\ sinceAdd' = NoteRemove(subdomain)
  /\ UNCHANGED <<mu, task, crashed>>

RemoveSubdomain(subdomain) ==
  /\ Quiet
  /\ domainMap' = MapDelete(domainMap, subdomain)
  /\ ret' = [op |-> "RemoveSubdomain", arg |-> <<subdomain>>,
             res |-> DOMAIN AddStart(domainMap, subdomain)]
  /\ sinceAdd' = NoteRemove(subdomain)
  /\ UNCHANGED <<mu, task, crashed>>

\* What Exists(subdomain) returns on the map dm.
ExistsResult(dm, subdomain) ==
  \/ subdomain \in DOMAIN dm
  \/ \E name \in DOMAIN dm : PathMatch(name, subdomain)

\* An Exists that removes the handlers it finds expired.
ExistsPrunes(subdomain) ==
  /\ Quiet
  /\ ret' = [op |-> "Exists", arg |-> <<subdomain>>,
             res |-> ExistsResult(domainMap, subdomain)]
  /\ domainMap' =
       [k \in DOMAIN domainMap |->
          [p \in DOMAIN domainMap[k] |->
             [a \in {b \in DOMAIN domainMap[k][p] : alive(domainMap[k][p][b])}
                |-> domainMap[k][p][a]]]]
  /\ UNCHANGED <<mu, task, crashed, sinceAdd>>

Exists(subdomain) ==
  /\ Quiet
  /\ ret' = [op |-> "Exists", arg |-> <<subdomain>>,
             res |-> ExistsResult(domainMap, subdomain)]
  /\ UNCHANGED <<domainMap, mu, task, crashed, sinceAdd>>

Subdomains ==
  /\ Quiet
  /\ ret' = [op |-> "Subdomains", arg |-> <<>>, res |-> DOMAIN domainMap]
  /\ UNCHANGED <<domainMap, mu, task, crashed, sinceAdd>>

\* A findHandler that scans the patterns before it looks for the exact key.
ResolveKeysPatternFirst(dm, subdomain) ==
  IF {name \in DOMAIN dm : name # subdomain /\ PathMatch(name, subdomain)} # {}
  THEN {name \in DOMAIN dm : name # subdomain /\ PathMatch(name, subdomain)}
  ELSE IF subdomain \in DOMAIN dm THEN {subdomain} ELSE {}

\* The keys whose proxyHandlers findHandler may end up with: the exact key
\* when there is one, otherwise whichever matching pattern the range over
\* the map meets first.
ResolveKeys(dm, subdomain) ==
  IF subdomain \in DOMAIN dm THEN {subdomain}
  ELSE {name \in DOMAIN dm : PathMatch(name, subdomain)}

\* The addresses of the bucket ph[port] (none when there is no bucket).
Bucket(ph, port) == IF port \in DOMAIN ph THEN DOMAIN ph[port] ELSE {}

\* A findHandler that drops a key once the scan leaves its bucket empty.
FindOutcomesDropEmpty(dm, subdomain, port) ==
  IF ResolveKeys(dm, subdomain) = {}
  THEN {[handler |-> NoHandler, dm |-> dm]}
  ELSE UNION {
         {LET o == phHandler(dm[k], port, order) IN
            [handler |-> o.handler,
             dm |-> IF port \in DOMAIN o.ph /\ DOMAIN o.ph[port] = {}
                    THEN MapDelete(dm, k) ELSE MapPut(dm, k, o.ph)]
          : order \in Perms(Bucket(dm[k], port))}
         : k \in ResolveKeys(dm, subdomain)}

\* The possible outcomes of findHandler(subdomain, port) on dm, one for each
\* order the maps can be ranged over: [handler, dm].
FindOutcomes(dm, subdomain, port) ==
  IF ResolveKeys(dm, subdomain) = {}
  THEN {[handler |-> NoHandler, dm |-> dm]}
  ELSE UNION {
         {LET o == phHandler(dm[k], port, order) IN
            [handler |-> o.handler, dm |-> MapPut(dm, k, o.ph)]
          : order \in Perms(Bucket(dm[k], port))}
         : k \in ResolveKeys(dm, subdomain)}

findHandler(subdomain, port) ==
  /\ Quiet
  /\ \E o \in FindOutcomes(domainMap, subdomain, port) :
       /\ domainMap' = o.dm
       /\ ret' = [op |-> "findHandler", arg |-> <<subdomain, port>>,
                  res |-> o.handler, late |-> Late(subdomain, port)]
  /\ UNCHANGED <<mu, task, crashed, sinceAdd>>

\* ServeHTTPWithPort: the request goes to the handler found for the first
\* label of the host in lower case, or is answered with 404 (NoHandler).
ServeHTTPWithPort(host, port) ==
  /\ Quiet
  /\ \E o \in FindOutcomes(domainMap, ToLower(FirstLabel(host)), port) :
       /\ domainMap' = o.dm
       /\ ret' = [op |-> "ServeHTTPWithPort", arg |-> <<host, port>>,
                  res |-> o.handler]
  /\ UNCHANGED <<mu, task, crashed, sinceAdd>>

\* The proxyAction values the switch of Modify knows.
proxyAdd == "Add"
proxyRemove == "Remove"

\* The proxyControl values Modify is called with: an Add, a Remove whose
\* address and port name nothing registered, and two of unknown kind.
Controls ==
  { [Action |-> "Add", Subdomain |-> sFoo, IPAddress |-> "a1", Port |-> 8080],
    [Action |-> "Remove", Subdomain |-> sFoo, IPAddress |-> "a2", Port |-> 9090],
    [Action |-> "Purge", Subdomain |-> sFoo, IPAddress |-> "a1", Port |-> 8080],
    [Action |-> "remove", Subdomain |-> sPattern, IPAddress |-> "a1", Port |-> 8080] }

\* A Modify whose default branch removes the subdomain.
ModifyDefaultRemoves(action) ==
  /\ Quiet
  /\ IF action.Action = proxyAdd
     THEN /\ LET dm == AddResult(domainMap, action.Subdomain, action.IPAddress,
                                 action.Port) IN
               /\ MapSize(dm) <= MaxHandles
               /\ domainMap' = dm
          /\ sinceAdd' = NoteAdd(NoteCall(sinceAdd, action.Subdomain, action.IPAddress,
                                          action.Port),
                                 action.Subdomain, action.IPAddress, action.Port)
          /\ ret' = [op |-> "AddSubdomain",
                     arg |-> <<action.Subdomain, action.IPAddress, action.Port>>,
                     res |-> <<>>, by |-> action]
     ELSE /\ domainMap' = MapDelete(domainMap, action.Subdomain)
          /\ sinceAdd' = NoteRemove(action.Subdomain)
          /\ ret' = [op |-> "RemoveSubdomain", arg |-> <<action.Subdomain>>,
                     res |-> DOMAIN AddStart(domainMap, action.Subdomain),
                     by |-> action]
  /\ UNCHANGED <<mu, task, crashed>>

\* Modify(action): the switch on action.Action calls AddSubdomain or
\* RemoveSubdomain, or logs the unknown action and returns. ret is that of
\* the operation called, with the proxyControl it was called through (by).
Modify(action) ==
  /\ Quiet
  /\ IF action.Action = proxyAdd
     THEN /\ LET dm == AddResult(domainMap, action.Subdomain, action.IPAddress,
                                 action.Port) IN
               /\ MapSize(dm) <= MaxHandles
               /\ domainMap' = dm
          /\ sinceAdd' = NoteAdd(NoteCall(sinceAdd, action.Subdomain, action.IPAddress,
                                          action.Port),
                                 action.Subdomain, action.IPAddress, action.Port)
          /\ ret' = [op |-> "AddSubdomain",
                     arg |-> <<action.Subdomain, action.IPAddress, action.Port>>,
                     res |-> <<>>, by |-> action]
     ELSE IF action.Action = proxyRemove
     THEN /\ domainMap' = MapDelete(domainMap, action.Subdomain)
          /\ sinceAdd' = NoteRemove(action.Subdomain)
          /\ ret' = [op |-> "RemoveSubdomain", arg |-> <<action.Subdomain>>,
                     res |-> DOMAIN AddStart(domainMap, action.Subdomain),
                     by |-> action]
     ELSE /\ ret' = [op |-> "Modify", arg |-> <<>>, res |-> <<>>, by |-> action]
          /\ UNCHANGED <<domainMap, sinceAdd>>
  /\ UNCHANGED <<mu, task, crashed>>

\* Time passes: every running timer of the table advances by one tick.
Tick ==
  /\ Quiet
  /\ \/ TickMap(domainMap) # domainMap
     \/ NoteTick # sinceAdd
  /\ domainMap' = TickMap(domainMap)
  /\ sinceAdd' = NoteTick
  /\ ret' = [op |-> "Tick", arg |-> <<>>, res |-> <<>>]
  /\ UNCHANGED <<mu, task, crashed>>

Next ==
  \/ \E s \in Subdomain, ip \in IPAddress, tp \in TargetPorts : AddSubdomain(s, ip, tp)
  \/ \E s \in Subdomain : RemoveSubdomain(s)
  \/ \E s \in Queries : Exists(s)
  \/ Subdomains
  \/ \E s \in Queries, p \in QueryPorts : findHandler(s, p)
  \/ \E h \in Hosts, p \in QueryPorts : ServeHTTPWithPort(h, p)
  \/ \E action \in Controls : Modify(action)
  \/ Tick

Spec == Init /\ [][Next]_vars


\* ------------------------------------------------- concurrent goroutines
\* The same operations run by goroutines that interleave at every
\* acquisition of r.mu and, inside findHandler and AddSubdomain, at every
\* access to a proxyHandler: the runtime's timers and the other holders of
\* the read lock run between them.

Tasks == DOMAIN task

ConcSubdomain == {sFoo}
ConcIPAddress == {"a1"}
ConcTargets   == MappedTargets

\* r.mu.Lock() can return: nobody holds the lock in either mode.
CanLock == mu.w = {} /\ mu.r = {}

\* An RLock that does not wait for the holder of the write lock.
CanRLockAlways == TRUE

\* r.mu.RLock() can return: nobody holds the write lock.
CanRLock == mu.w = {}

\* The proxyHandlers registered under key (empty once the key is gone).
Entry(key) == IF key \in DOMAIN domainMap THEN domainMap[key] ELSE EmptyMap

\* The bucket Entry(key)[port] (empty when there is none).
EntryBucket(key, port) ==
  IF port \in DOMAIN Entry(key) THEN Entry(key)[port] ELSE EmptyMap

\* The proxyHandlers AddSubdomain works on: the registered one, which it
\* changes in place, or the one it made and has not stored yet.
CurPh(t) == IF task[t].isNew THEN task[t].ph ELSE Entry(task[t].sub)

\* task and domainMap after the goroutine t, inside AddSubdomain, has
\* changed its proxyHandlers to ph and moved on as the record next says.
AddWrite(t, ph, next) ==
  IF task[t].isNew
  THEN /\ task' = [task EXCEPT ![t] = [next EXCEPT !.ph = ph]]
       /\ UNCHANGED domainMap
  ELSE /\ task' = [task EXCEPT ![t] = next]
       /\ domainMap' = MapPut(domainMap, task[t].sub, ph)

\* AddSubdomain up to the loop: r.mu.Lock(), then ph.
cAddLock(t, subdomain, ipaddress, targetPort) ==
  /\ ~crashed
  /\ task[t].pc = "idle"
  /\ CanLock
  /\ MapSize(AddResult(domainMap, subdomain, ipaddress, targetPort)) <= MaxHandles
  /\ mu' = [mu EXCEPT !.w = @ \cup {t}]
  /\ task' = [task EXCEPT ![t] =
       [pc |-> "add", sub |-> subdomain, ip |-> ipaddress, port |-> targetPort,
        i |-> 1, isNew |-> subdomain \notin DOMAIN domainMap, ph |-> EmptyMap]]
  /\ sinceAdd' = NoteCall(sinceAdd, subdomain, ipaddress, targetPort)
  /\ UNCHANGED <<domainMap, crashed, ret>>

\* One pass of the loop up to the return of h.alive(): an entry for another
\* target port is skipped, a missing or dead handler is replaced at once, a
\* live one is left for extend().
cAddCheck(t) ==
  /\ ~crashed
  /\ task[t].pc = "add"
  /\ task[t].i <= Len(ListenHTTP)
  /\ LET v    == ListenHTTP[task[t].i]
         ph   == CurPh(t)
         ip   == task[t].ip
         step == [task[t] EXCEPT !.i = @ + 1]
     IN
     IF v.TargetPort # task[t].port
     THEN /\ task' = [task EXCEPT ![t] = step]
          /\ UNCHANGED domainMap
     ELSE IF <<v.ListenPort, ip>> \in PhSlots(ph) /\ alive(ph[v.ListenPort][ip])
     THEN /\ task' = [task EXCEPT ![t] = [task[t] EXCEPT !.pc = "extend"]]
          /\ UNCHANGED domainMap
     ELSE AddWrite(t, AddBody(ph, v, ip), step)
  /\ UNCHANGED <<mu, crashed, ret, sinceAdd>>

\* h.extend() on the handler that alive() reported alive.
cAddExtend(t) ==
  /\ ~crashed
  /\ task[t].pc = "extend"
  /\ LET v  == ListenHTTP[task[t].i]
         ph == CurPh(t)
         ip == task[t].ip
     IN AddWrite(t,
                 IF <<v.ListenPort, ip>> \in PhSlots(ph)
                 THEN MapPut(ph, v.ListenPort,
                             MapPut(ph[v.ListenPort], ip, extend(ph[v.ListenPort][ip])))
                 ELSE ph,
                 [task[t] EXCEPT !.pc = "add", !.i = @ + 1])
  /\ UNCHANGED <<mu, crashed, ret, sinceAdd>>

\* After the loop: r.domainMap[subdomain] = ph, r.mu.Unlock(), return.
cAddStore(t) ==
  /\ ~crashed
  /\ task[t].pc = "add"
  /\ task[t].i > Len(ListenHTTP)
  /\ domainMap' = MapPut(domainMap, task[t].sub, CurPh(t))
  /\ mu' = [mu EXCEPT !.w = @ \ {t}]
  /\ task' = [task EXCEPT ![t] = Idle]
  /\ ret' = [op |-> "AddSubdomain",
             arg |-> <<task[t].sub, task[t].ip, task[t].port>>, res |-> <<>>]
  /\ sinceAdd' = NoteAdd(sinceAdd, task[t].sub, task[t].ip, task[t].port)
  /\ UNCHANGED crashed

\* RemoveSubdomain: r.mu.Lock().
cRemoveLock(t, subdomain) ==
  /\ ~crashed
  /\ task[t].pc = "idle"
  /\ CanLock
  /\ mu' = [mu EXCEPT !.w = @ \cup {t}]
  /\ task' = [task EXCEPT ![t] = [pc |-> "remove", sub |-> subdomain]]
  /\ UNCHANGED <<domainMap, crashed, ret, sinceAdd>>

\* RemoveSubdomain: delete(r.domainMap, subdomain), r.mu.Unlock(), return.
cRemoveDone(t) ==
  /\ ~crashed
  /\ task[t].pc = "remove"
  /\ domainMap' = MapDelete(domainMap, task[t].sub)
  /\ mu' = [mu EXCEPT !.w = @ \ {t}]
  /\ task' = [task EXCEPT ![t] = Idle]
  /\ ret' = [op |-> "RemoveSubdomain", arg |-> <<task[t].sub>>,
             res |-> DOMAIN Entry(task[t].sub)]
  /\ sinceAdd' = NoteRemove(task[t].sub)
  /\ UNCHANGED crashed

\* Exists: r.mu.RLock().
cExistsRLock(t, subdomain) ==
  /\ ~crashed
  /\ task[t].pc = "idle"
  /\ CanRLock
  /\ mu' = [mu EXCEPT !.r = @ \cup {t}]
  /\ task' = [task EXCEPT ![t] = [pc |-> "exists", sub |-> subdomain]]
  /\ UNCHANGED <<domainMap, crashed, ret, sinceAdd>>

\* Exists: the look at r.domainMap, r.mu.RUnlock(), return.
cExistsDone(t) ==
  /\ ~crashed
  /\ task[t].pc = "exists"
  /\ mu' = [mu EXCEPT !.r = @ \ {t}]
  /\ task' = [task EXCEPT ![t] = Idle]
  /\ ret' = [op |-> "Exists", arg |-> <<task[t].sub>>,
             res |-> ExistsResult(domainMap, task[t].sub)]
  /\ UNCHANGED <<domainMap, crashed, sinceAdd>>

\* Where the goroutine is once findHandler has returned handler to it: in
\* handler.ServeHTTP when ServeHTTPWithPort made the call and a handler was
\* found, otherwise outside (ServeHTTPWithPort has answered 404).
AfterFind(r, handler) ==
  IF "host" \in DOMAIN r /\ handler # NoHandler
  THEN [pc |-> "forward", host |-> r.host, port |-> r.port, handler |-> handler]
  ELSE Idle

\* findHandler returns handler: r.mu.RUnlock() and the result.
FindReturn(t, subdomain, port, handler) ==
  /\ mu' = [mu EXCEPT !.r = @ \ {t}]
  /\ task' = [task EXCEPT ![t] = AfterFind(task[t], handler)]
  /\ ret' = [op |-> "findHandler", arg |-> <<subdomain, port>>, res |-> handler,
             late |-> task[t].late]

\* findHandler up to the loop of Handler: r.mu.RLock(), the proxyHandlers of
\* the exact key or of a matching pattern, then the bucket of the port.
cFindRLock(t, subdomain, port) ==
  /\ ~crashed
  /\ task[t].pc = "idle"
  /\ CanRLock
  /\ IF ResolveKeys(domainMap, subdomain) = {}
     THEN /\ ret' = [op |-> "findHandler", arg |-> <<subdomain, port>>,
                     res |-> NoHandler, late |-> Late(subdomain, port)]
          /\ UNCHANGED <<mu, task>>
     ELSE \E k \in ResolveKeys(domainMap, subdomain) :
            IF DOMAIN EntryBucket(k, port) = {}
            THEN /\ ret' = [op |-> "findHandler", arg |-> <<subdomain, port>>,
                            res |-> NoHandler, late |-> Late(subdomain, port)]
                 /\ UNCHANGED <<mu, task>>
            ELSE /\ mu' = [mu EXCEPT !.r = @ \cup {t}]
                 /\ task' = [task EXCEPT ![t] =
                      [pc |-> "range", sub |-> subdomain, port |-> port, key |-> k,
                       todo |-> DOMAIN EntryBucket(k, port), cur |-> "",
                       late |-> Late(subdomain, port)]]
                 /\ UNCHANGED ret
  /\ UNCHANGED <<domainMap, crashed, sinceAdd>>

\* The request hosts the goroutines serve.
ConcHosts == {<<"F", "o", "o", ".", "x">>}

\* ServeHTTPWithPort up to the loop of Handler: the first label of the host
\* in lower case, then findHandler as above; with nothing to range over the
\* request is answered 404 at once.
cServeRLock(t, host, port) ==
  /\ ~crashed
  /\ task[t].pc = "idle"
  /\ CanRLock
  /\ LET subdomain == ToLower(FirstLabel(host)) IN
     IF ResolveKeys(domainMap, subdomain) = {}
     THEN /\ ret' = [op |-> "findHandler", arg |-> <<subdomain, port>>,
                     res |-> NoHandler, late |-> Late(subdomain, port)]
          /\ UNCHANGED <<mu, task>>
     ELSE \E k \in ResolveKeys(domainMap, subdomain) :
            IF DOMAIN EntryBucket(k, port) = {}
            THEN /\ ret' = [op |-> "findHandler", arg |-> <<subdomain, port>>,
                            res |-> NoHandler, late |-> Late(subdomain, port)]
                 /\ UNCHANGED <<mu, task>>
            ELSE /\ mu' = [mu EXCEPT !.r = @ \cup {t}]
                 /\ task' = [task EXCEPT ![t] =
                      [pc |-> "range", sub |-> subdomain, port |-> port, key |-> k,
                       todo |-> DOMAIN EntryBucket(k, port), cur |-> "",
                       late |-> Late(subdomain, port), host |-> host]]
                 /\ UNCHANGED ret
  /\ UNCHANGED <<domainMap, crashed, sinceAdd>>

\* handler.ServeHTTP(w, req) returns: the backend has answered. Nothing
\* makes it return.
cServeDone(t) ==
  /\ ~crashed
  /\ task[t].pc = "forward"
  /\ task' = [task EXCEPT ![t] = Idle]
  /\ ret' = [op |-> "ServeHTTPWithPort", arg |-> <<task[t].host, task[t].port>>,
             res |-> task[t].handler]
  /\ UNCHANGED <<domainMap, mu, crashed, sinceAdd>>

\* The addresses the range of Handler has yet to produce: those it has not
\* produced that are still in the bucket.
Remaining(t) == task[t].todo \cap DOMAIN EntryBucket(task[t].key, task[t].port)

\* Handler: the range produces the next address and calls handler.alive();
\* a live handler is returned, or the range is over and nothing is returned.
cFindRange(t) ==
  /\ ~crashed
  /\ task[t].pc = "range"
  /\ IF Remaining(t) = {}
     THEN /\ FindReturn(t, task[t].sub, task[t].port, NoHandler)
          /\ UNCHANGED domainMap
     ELSE \E ip \in Remaining(t) :
            LET h == EntryBucket(task[t].key, task[t].port)[ip] IN
            IF alive(h)
            THEN /\ FindReturn(t, task[t].sub, task[t].port, h.handler)
                 /\ UNCHANGED domainMap
            ELSE /\ domainMap' =
                      [domainMap EXCEPT ![task[t].key][task[t].port][ip] = afterAlive(h)]
                 /\ task' = [task EXCEPT ![t] =
                      [task[t] EXCEPT !.pc = "delete", !.cur = ip, !.todo = @ \ {ip}]]
                 /\ UNCHANGED <<mu, ret>>
  /\ UNCHANGED <<crashed, sinceAdd>>

\* Handler: delete(ph[port], ipaddress) of the handler found dead.
cFindDelete(t) ==
  /\ ~crashed
  /\ task[t].pc = "delete"
  /\ domainMap' =
       IF task[t].cur \in DOMAIN EntryBucket(task[t].key, task[t].port)
       THEN [domainMap EXCEPT ![task[t].key][task[t].port] = MapDelete(@, task[t].cur)]
       ELSE domainMap
  /\ task' = [task EXCEPT ![t] = [task[t] EXCEPT !.pc = "range"]]
  /\ UNCHANGED <<mu, crashed, ret, sinceAdd>>

\* The goroutine t is about to write the bucket <<key, port>>.
Writes(t, key, port) ==
  \/ task[t].pc = "delete" /\ task[t].key = key /\ task[t].port = port
  \/ task[t].pc \in {"add", "extend"} /\ task[t].sub = key /\ ~task[t].isNew
       /\ port \in ListenPorts
  \/ task[t].pc = "remove" /\ task[t].sub = key /\ port \in ListenPorts

\* The goroutine t is about to read the bucket <<key, port>>.
Reads(t, key, port) ==
  task[t].pc = "range" /\ task[t].key = key /\ task[t].port = port

\* Two goroutines are about to access one bucket with nothing ordering
\* them, and one of the accesses is a write.
DataRace ==
  \E t1, t2 \in Tasks : \E key \in DOMAIN domainMap, port \in ListenPorts :
    /\ t1 # t2
    /\ Writes(t1, key, port)
    /\ Writes(t2, key, port) \/ Reads(t2, key, port)

\* The runtime finds the map written while it is ranged over or written:
\* "fatal error: concurrent map iteration and map write".
cCrash ==
  /\ ~crashed
  /\ DataRace
  /\ crashed' = TRUE
  /\ UNCHANGED <<domainMap, mu, task, ret, sinceAdd>>

\* The proxyHandlers that AddSubdomain has made and not stored one tick on.
TickTask(r) == IF r.pc \in {"add", "extend"} THEN [r EXCEPT !.ph = TickPh(@)] ELSE r

\* Time passes while goroutines are inside their operations.
cTick ==
  /\ ~crashed
  /\ \/ TickMap(domainMap) # domainMap
     \/ NoteTick # sinceAdd
  /\ domainMap' = TickMap(domainMap)
  /\ task' = [t \in Tasks |-> TickTask(task[t])]
  /\ sinceAdd' = NoteTick
  /\ ret' = [op |-> "Tick", arg |-> <<>>, res |-> <<>>]
  /\ UNCHANGED <<mu, crashed>>

NextConc ==
  \/ \E t \in Tasks, s \in ConcSubdomain, ip \in ConcIPAddress, tp \in ConcTargets :
       cAddLock(t, s, ip, tp)
  \/ \E t \in Tasks : cAddCheck(t)
  \/ \E t \in Tasks : cAddExtend(t)
  \/ \E t \in Tasks : cAddStore(t)
  \/ \E t \in Tasks, s \in ConcSubdomain : cRemoveLock(t, s)
  \/ \E t \in Tasks : cRemoveDone(t)
  \/ \E t \in Tasks, s \in ConcSubdomain : cExistsRLock(t, s)
  \/ \E t \in Tasks : cExistsDone(t)
  \/ \E t \in Tasks, s \in ConcSubdomain, p \in ListenPorts : cFindRLock(t, s, p)
  \/ \E t \in Tasks : cFindRange(t)
  \/ \E t \in Tasks : cFindDelete(t)
  \/ \E t \in Tasks, h \in ConcHosts, p \in ListenPorts : cServeRLock(t, h, p)
  \/ \E t \in Tasks : cServeDone(t)
  \/ cCrash
  \/ cTick

SpecConc == Init /\ [][NextConc]_vars

\* The goroutines.
Goroutines == {"t1", "t2"}

\* A step of the goroutine t inside an operation on the table. The
\* scheduler runs every goroutine that can run; nothing makes a client call
\* an operation, a backend answer, or the runtime find a data race.
Progress(t) ==
  \/ cAddCheck(t) \/ cAddExtend(t) \/ cAddStore(t)
  \/ cRemoveDone(t)
  \/ cExistsDone(t)
  \/ cFindRange(t) \/ cFindDelete(t)

SpecLive == SpecConc /\ \A t \in Goroutines : WF_vars(Progress(t))


\* ================================================================ claims

\* The <<subdomain, address, targetPort>> whose last call of AddSubdomain
\* was made less than a lifetime ago and has returned, with no
\* RemoveSubdomain since and targetPort mapped from the listen port.
AddedWithin(subdomain, listenPort) ==
  {k \in AddKeys : /\ k[1] = subdomain
                   /\ Maps(listenPort, k[3])
                   /\ sinceAdd[k].call >= 0
                   /\ sinceAdd[k].done >= 0}

\* The handlers of the bucket <<subdomain, listenPort>> whose timer has not
\* fired.
LiveHandlers(subdomain, listenPort) ==
  {EntryBucket(subdomain, listenPort)[ip].handler :
     ip \in {a \in DOMAIN EntryBucket(subdomain, listenPort) :
               alive(EntryBucket(subdomain, listenPort)[a])}}

C2_Expiry ==
  /\ (ret.op = "findHandler" /\ ret.arg[1] \in DOMAIN domainMap /\ ret.late)
       => ret.res = NoHandler
  /\ (ret.op = "Exists" /\ ret.arg[1] \in DOMAIN domainMap) => ret.res = TRUE

\* C3 as stated: while AddSubdomain keeps being called for the same domain,
\* address and port less than a lifetime apart, findHandler keeps returning
\* a handler, however the timer's expiry falls between alive() and extend().
C3_Renewal ==
  (ret.op = "findHandler" /\ AddedWithin(ret.arg[1], ret.arg[2]) # {}) =>
    ret.res # NoHandler

\* C5 as stated: no two goroutines access one port bucket at the same time
\* with one of them writing it.
C5_NoDataRace == ~DataRace

\* C6 as stated: findHandler never returns a handler that another operation
\* has already observed expired.
C6_NoResurrection ==
  [][\A t \in Tasks :
       (/\ task[t].pc = "range"
        /\ task'[t].pc = "idle"
        /\ ret'.op = "findHandler"
        /\ ret'.res # NoHandler)
       => ~ \E u \in Tasks \ {t} :
              /\ task[u].pc = "delete"
              /\ task[u].key = task[t].key
              /\ task[u].port = task[t].port
              /\ task[u].cur \in DOMAIN EntryBucket(task[u].key, task[u].port)
              /\ EntryBucket(task[u].key, task[u].port)[task[u].cur].handler = ret'.res
    ]_vars

\* The goroutine is between RLock and RUnlock.
Reading(t) == task[t].pc \in {"exists", "range", "delete"}

\* The goroutine is between Lock and Unlock: some of the effects of its
\* AddSubdomain or RemoveSubdomain may be applied and others not.
Writing(t) == task[t].pc \in {"add", "extend", "remove"}

\* C7: a goroutine inside AddSubdomain or RemoveSubdomain excludes every
\* other operation, so no read runs while a write is partly applied.
C7_AtomicWrites ==
  \A t, u \in Tasks :
    t # u => /\ Reading(t) => ~Writing(u)
             /\ Writing(t) => ~Writing(u)

\* C7 witness: AddSubdomain has renewed the handler of the first listen port
\* and not yet that of the second, while the other goroutine is outside.
C7_Witness ==
  \E t \in Tasks :
    /\ task[t].pc = "add"
    /\ task[t].i = 2
    /\ ~task[t].isNew
    /\ EntryBucket(task[t].sub, ListenHTTP[1].ListenPort)
         # EntryBucket(task[t].sub, ListenHTTP[2].ListenPort)
    /\ \A u \in Tasks \ {t} : task[u].pc = "idle"

\* The subdomain a completed lookup asked for.
LookupKey(r) ==
  IF r.op = "ServeHTTPWithPort" THEN ToLower(FirstLabel(r.arg[1])) ELSE r.arg[1]

\* C8: a lookup of a subdomain that is registered as an exact key leaves the
\* entry of every other key as it was, and returns nothing but a live
\* handler of the exact key's bucket.
C8_ExactPrecedence ==
  [][(ret'.op \in {"findHandler", "ServeHTTPWithPort"}
        /\ LookupKey(ret') \in DOMAIN domainMap)
     => /\ \A k \in (DOMAIN domainMap) \ {LookupKey(ret')} :
             k \in DOMAIN domainMap' /\ domainMap'[k] = domainMap[k]
        /\ ret'.res # NoHandler => ret'.res \in LiveHandlers(LookupKey(ret'), ret'.arg[2])
    ]_vars

\* C8 witness: "foo" has been looked up while "f*" was registered too and
\* held, in the bucket of that port, a handler whose timer had fired.
C8_Witness ==
  /\ ret.op = "findHandler"
  /\ ret.arg[1] = sFoo
  /\ {sFoo, sPattern} \subseteq DOMAIN domainMap
  /\ \E ip \in DOMAIN EntryBucket(sPattern, ret.arg[2]) :
       ~alive(EntryBucket(sPattern, ret.arg[2])[ip])

\* C9 as stated: every key of the table is in lower case, and Exists finds
\* a registered domain whatever the case it is asked in.
C9_CaseFolding ==
  /\ \A k \in DOMAIN domainMap : k = ToLower(k)
  /\ (ret.op = "Exists"
        /\ \E k \in DOMAIN domainMap : ToLower(k) = ToLower(ret.arg[1]))
     => ret.res = TRUE

\* C10: a key leaves the table only by RemoveSubdomain of that key, every
\* AddSubdomain leaves its key registered, Subdomains lists every key and
\* Exists is true for each of them, whatever has expired or been pruned.
C10_OnlyRemoveDeletes ==
  [][/\ \A k \in (DOMAIN domainMap) \ (DOMAIN domainMap') :
          ret'.op = "RemoveSubdomain" /\ ret'.arg[1] = k
     /\ ret'.op = "AddSubdomain" => ret'.arg[1] \in DOMAIN domainMap'
     /\ ret'.op = "Subdomains" => ret'.res = DOMAIN domainMap'
     /\ (ret'.op = "Exists" /\ ret'.arg[1] \in DOMAIN domainMap') => ret'.res = TRUE
    ]_vars

\* C10 witness: Subdomains lists a key all of whose buckets have been
\* pruned empty.
C10_Witness ==
  /\ ret.op = "Subdomains"
  /\ \E k \in ret.res :
       /\ DOMAIN domainMap[k] = ListenPorts
       /\ \A p \in ListenPorts : DOMAIN domainMap[k][p] = {}

\* C4 as stated: right after RemoveSubdomain of a domain registered on both
\* listen ports, findHandler finds nothing for it and Exists is false.
C4_RemoveWipes ==
  [][(/\ ret.op = "RemoveSubdomain"
      /\ ret.res = ListenPorts
      /\ ret'.op \in {"findHandler", "Exists"}
      /\ ret'.arg[1] = ret.arg[1])
     => IF ret'.op = "Exists" THEN ret'.res = FALSE ELSE ret'.res = NoHandler
    ]_vars

\* C4 amended: RemoveSubdomain deletes the key with all its buckets and
\* nothing else, only AddSubdomain of a key registers it, and for a domain
\* that is not registered and that no registered key glob-matches
\* findHandler finds nothing on any port and Exists is false.
C4_RemoveWipesUnmatched ==
  [][/\ ret'.op = "RemoveSubdomain" =>
          domainMap' = MapDelete(domainMap, ret'.arg[1])
     /\ \A k \in (DOMAIN domainMap') \ (DOMAIN domainMap) :
          ret'.op = "AddSubdomain" /\ ret'.arg[1] = k
     /\ (/\ ret'.op \in {"findHandler", "Exists"}
         /\ ret'.arg[1] \notin DOMAIN domainMap
         /\ \A k \in DOMAIN domainMap : ~PathMatch(k, ret'.arg[1]))
        => IF ret'.op = "Exists" THEN ret'.res = FALSE ELSE ret'.res = NoHandler
    ]_vars

\* C4 witness: RemoveSubdomain has deleted an entry that had both listen
\* ports while another key, which does not match it, stays registered.
C4_Witness ==
  /\ ret.op = "RemoveSubdomain"
  /\ ret.res = ListenPorts
  /\ ret.arg[1] \notin DOMAIN domainMap
  /\ DOMAIN domainMap # {}
  /\ \A k \in DOMAIN domainMap : ~PathMatch(k, ret.arg[1])

\* C11: Modify with an action that is neither Add nor Remove leaves the
\* table as it was and the process running; with Add it has the effect of
\* AddSubdomain(Subdomain, IPAddress, Port), with Remove that of
\* RemoveSubdomain(Subdomain) whatever its address and port.
C11_ModifyDispatch ==
  []["by" \in DOMAIN ret' =>
       /\ crashed' = crashed
       /\ IF ret'.by.Action = proxyAdd
          THEN domainMap' = AddResult(domainMap, ret'.by.Subdomain,
                                      ret'.by.IPAddress, ret'.by.Port)
          ELSE IF ret'.by.Action = proxyRemove
          THEN domainMap' = MapDelete(domainMap, ret'.by.Subdomain)
          ELSE domainMap' = domainMap
    ]_vars

\* C11 witness: Modify has returned from an action of unknown kind naming
\* a subdomain that is registered with a handler whose timer has fired
\* and one whose timer is running.
C11_Witness ==
  /\ "by" \in DOMAIN ret
  /\ ret.by.Action \notin {proxyAdd, proxyRemove}
  /\ ret.by.Subdomain \in DOMAIN domainMap
  /\ \E p, q \in ListenPorts :
       /\ \E ip \in DOMAIN EntryBucket(ret.by.Subdomain, p) :
            ~alive(EntryBucket(ret.by.Subdomain, p)[ip])
       /\ \E ip \in DOMAIN EntryBucket(ret.by.Subdomain, q) :
            alive(EntryBucket(ret.by.Subdomain, q)[ip])

\* The handlers findHandler(subdomain, port) can return on the map dm.
Findable(dm, subdomain, port) ==
  {o.handler : o \in FindOutcomes(dm, subdomain, port)} \ {NoHandler}

\* C12: AddSubdomain with a target port that no listen port maps to leaves
\* every registered entry as it was, buckets and timers included, makes no
\* bucket for a new key, does not stop the process, and lets findHandler
\* return for the subdomain nothing that it could not return before.
C12_UnmappedTarget ==
  [][(ret'.op = "AddSubdomain" /\ ret'.arg[3] \notin MappedTargets) =>
       /\ \A k \in DOMAIN domainMap :
            k \in DOMAIN domainMap' /\ domainMap'[k] = domainMap[k]
       /\ \A k \in (DOMAIN domainMap') \ (DOMAIN domainMap) :
            DOMAIN domainMap'[k] = {}
       /\ crashed' = crashed
       /\ \A p \in QueryPorts :
            Findable(domainMap', ret'.arg[1], p)
              \subseteq Findable(domainMap, ret'.arg[1], p)
    ]_vars

\* C12 witness: AddSubdomain with the unmapped target port has registered
\* a key without buckets while another key holds a handler whose timer has
\* been running for a tick.
C12_Witness ==
  /\ ret.op = "AddSubdomain"
  /\ ret.arg[3] \notin MappedTargets
  /\ ret.arg[1] \in DOMAIN domainMap
  /\ DOMAIN domainMap[ret.arg[1]] = {}
  /\ \E k \in DOMAIN domainMap, p \in ListenPorts :
       \E ip \in DOMAIN EntryBucket(k, p) :
         /\ alive(EntryBucket(k, p)[ip])
         /\ EntryBucket(k, p)[ip].timer.rem < proxyHandlerLifetime

\* The slots <<key, port, address>> of the map dm that hold a proxyHandler.
TableSlots(dm) ==
  {s \in (DOMAIN dm) \X ListenPorts \X IPAddress :
     s[2] \in DOMAIN dm[s[1]] /\ s[3] \in DOMAIN dm[s[1]][s[2]]}

\* C13 as stated: a lookup that finds a handler alive resets the timer of
\* that handler to the full lifetime.
C13_LookupRenews ==
  [][(ret'.op \in {"findHandler", "ServeHTTPWithPort"} /\ ret'.res # NoHandler) =>
       \E s \in TableSlots(domainMap') :
         /\ s[1] \in ResolveKeys(domainMap, LookupKey(ret'))
         /\ s[2] = ret'.arg[2]
         /\ domainMap'[s[1]][s[2]][s[3]].handler = ret'.res
         /\ domainMap'[s[1]][s[2]][s[3]].timer.rem = proxyHandlerLifetime
    ]_vars

\* C13 amended: only AddSubdomain of the triple starts or resets a timer:
\* a lookup leaves every handler it does not prune exactly as it was,
\* timer included, every other operation but AddSubdomain makes no slot and
\* moves no deadline later, and a handler whose timer is still running was
\* added or re-added less than a lifetime ago, however often it was found.
C13_OnlyAddRenews ==
  [][\A k \in DOMAIN domainMap' : \A p \in DOMAIN domainMap'[k] :
       \A ip \in DOMAIN domainMap'[k][p] :
         LET h == domainMap'[k][p][ip]
             old == k \in DOMAIN domainMap /\ p \in DOMAIN domainMap[k]
                      /\ ip \in DOMAIN domainMap[k][p]
         IN /\ ret'.op \in {"findHandler", "ServeHTTPWithPort"} =>
                 old /\ h = domainMap[k][p][ip]
            /\ (~old \/ h.timer.rem > domainMap[k][p][ip].timer.rem)
               => /\ ret'.op = "AddSubdomain"
                  /\ ret'.arg[1] = k
                  /\ ret'.arg[2] = ip
                  /\ Maps(p, ret'.arg[3])
            /\ h.timer.rem > 0
               => \E tp \in MappedTargets :
                    Maps(p, tp) /\ sinceAdd'[<<k, ip, tp>>].done >= 0
    ]_vars

\* C13 witness: findHandler has returned a handler whose timer has been
\* running for a tick and was left running as it was.
C13_Witness ==
  /\ ret.op = "findHandler"
  /\ ret.res # NoHandler
  /\ \E s \in TableSlots(domainMap) :
       /\ s[1] \in ResolveKeys(domainMap, ret.arg[1])
       /\ s[2] = ret.arg[2]
       /\ domainMap[s[1]][s[2]][s[3]].handler = ret.res
       /\ domainMap[s[1]][s[2]][s[3]].timer.rem < proxyHandlerLifetime

\* The pattern matches the name as one host name label: '*' and '?' do
\* not match across a dot.
SingleLabelMatch(pattern, name) ==
  /\ \A i \in 1..Len(name) : name[i] # "."
  /\ PathMatch(pattern, name)

\* C14 as stated: Exists is true exactly for a registered key and for a
\* name that a registered pattern matches as one label, and findHandler
\* finds nothing for a name that is neither.
C14_SingleLevelWildcard ==
  /\ ret.op = "Exists" =>
       ret.res = (\/ ret.arg[1] \in DOMAIN domainMap
                  \/ \E k \in DOMAIN domainMap : SingleLabelMatch(k, ret.arg[1]))
  /\ (/\ ret.op = "findHandler"
      /\ ret.arg[1] \notin DOMAIN domainMap
      /\ \A k \in DOMAIN domainMap : ~SingleLabelMatch(k, ret.arg[1]))
     => ret.res = NoHandler

\* The goroutine is inside AddSubdomain, RemoveSubdomain, Exists or
\* findHandler.
InTable(t) == task[t].pc \notin {"idle", "forward"}

\* C15 as stated: every AddSubdomain, RemoveSubdomain, findHandler and
\* Exists that has begun completes, whatever the requests being forwarded
\* do.
C15_OperationsComplete ==
  \A t \in Goroutines : InTable(t) ~> ~InTable(t)

\* C15 witness: a goroutine is forwarding a request through the handler
\* it found while the other one holds the write lock inside AddSubdomain.
C15_Witness ==
  \E t \in Tasks, u \in Tasks :
    /\ task[t].pc = "forward"
    /\ task[t].handler # NoHandler
    /\ t \notin mu.r
    /\ task[u].pc = "add"
    /\ u \in mu.w

\* An AddSubdomain acts in the step: a goroutine takes a step of its loop
\* or stores the entry, or the operation runs as a whole.
AddActs ==
  \/ \E t \in Tasks :
       /\ task[t].pc \in {"add", "extend"}
       /\ (task'[t].pc # task[t].pc \/ task'[t].i # task[t].i)
  \/ /\ \A t \in Tasks : task[t].pc = "idle" /\ task'[t].pc = "idle"
     /\ ret'.op = "AddSubdomain"

\* C16 as stated: AddSubdomain never replaces or drops a handler whose timer
\* is still running: the slot keeps the proxyHandler it held, the same
\* reverse proxy and the same timer, whose deadline alone may have been
\* reset to the full lifetime, and no key of the table is lost. A fresh
\* proxyHandler stands in a slot only where there was none or where the
\* timer had run out.
C16_IdempotentHeartbeat ==
  [][AddActs =>
       /\ \A s \in TableSlots(domainMap) :
            LET h == domainMap[s[1]][s[2]][s[3]] IN
            h.timer.rem > 0
            => /\ s \in TableSlots(domainMap')
               /\ domainMap'[s[1]][s[2]][s[3]] \in {h, extend(h)}
       /\ DOMAIN domainMap \subseteq DOMAIN domainMap'
    ]_vars

\* What a lookup that resolved to one of keys, for port, leaves of the
\* table: the same keys, every proxyHandler that is still there with the
\* reverse proxy and the deadline it had, none that was not there, and none
\* missing but from the bucket of port under one of keys, its timer run out.
LookupFrame(keys, port) ==
  /\ DOMAIN domainMap' = DOMAIN domainMap
  /\ TableSlots(domainMap') \subseteq TableSlots(domainMap)
  /\ \A s \in TableSlots(domainMap) :
       LET h == domainMap[s[1]][s[2]][s[3]] IN
       IF s \in TableSlots(domainMap')
       THEN /\ domainMap'[s[1]][s[2]][s[3]].handler = h.handler
            /\ domainMap'[s[1]][s[2]][s[3]].timer.rem = h.timer.rem
       ELSE /\ h.timer.rem = 0
            /\ s[1] \in keys
            /\ s[2] = port

\* The handler a lookup returns sits in the bucket of port under one of
\* keys, and its timer is still running.
LookupReturn(keys, port, res) ==
  res # NoHandler =>
    \E s \in TableSlots(domainMap') :
      /\ s[1] \in keys
      /\ s[2] = port
      /\ domainMap'[s[1]][s[2]][s[3]].handler = res
      /\ domainMap'[s[1]][s[2]][s[3]].timer.rem > 0

\* C17 as stated: findHandler changes nothing but the one bucket it ranges
\* over, from which it removes only handlers whose lifetime is over; it adds
\* and renews nothing, leaves the keys, the other buckets and the other
\* entries alone, and every handler it returns is in that bucket with its
\* lifetime not over.
C17_LookupFrame ==
  [][/\ \A t \in Tasks :
          (task[t].pc \in {"range", "delete"} /\ task'[t].pc # task[t].pc)
          => /\ LookupFrame({task[t].key}, task[t].port)
             /\ (task[t].pc = "range" /\ task'[t].pc \in {"idle", "forward"})
                => LookupReturn({task[t].key}, task[t].port, ret'.res)
     /\ (/\ \A t \in Tasks : task[t].pc = "idle" /\ task'[t].pc = "idle"
         /\ ret'.op \in {"findHandler", "ServeHTTPWithPort"})
        => /\ LookupFrame(ResolveKeys(domainMap, LookupKey(ret')), ret'.arg[2])
           /\ LookupReturn(ResolveKeys(domainMap, LookupKey(ret')), ret'.arg[2],
                           ret'.res)
    ]_vars

\* C18: Exists and Subdomains only read the keys of the table: the step
\* leaves the table as it was, every handler and every timer included, and
\* records no call of AddSubdomain; Exists answers true exactly when the
\* name is a key or a key matches it as a pattern, and Subdomains answers
\* the keys.
C18_PureReads ==
  [][/\ ret'.op = "Exists" =>
          /\ domainMap' = domainMap
          /\ sinceAdd' = sinceAdd
          /\ ret'.res = (\/ ret'.arg[1] \in DOMAIN domainMap
                         \/ \E k \in DOMAIN domainMap : PathMatch(k, ret'.arg[1]))
     /\ ret'.op = "Subdomains" =>
          /\ domainMap' = domainMap
          /\ sinceAdd' = sinceAdd
          /\ ret'.res = DOMAIN domainMap
    ]_vars

\* C18 witness: Exists has answered true for a name that only a pattern
\* matches while every handler registered under a matching key has expired
\* and is still in its bucket.
C18_Witness ==
  /\ ret.op = "Exists"
  /\ ret.res = TRUE
  /\ ret.arg[1] \notin DOMAIN domainMap
  /\ \E s \in TableSlots(domainMap) : PathMatch(s[1], ret.arg[1])
  /\ \A s \in TableSlots(domainMap) :
       PathMatch(s[1], ret.arg[1]) => ~alive(domainMap[s[1]][s[2]][s[3]])

\* The bucket of port under the registered key holds no handler whose
\* lifetime is still running (there may be no such bucket at all).
NothingLive(key, port) ==
  \A ip \in DOMAIN EntryBucket(key, port) :
    EntryBucket(key, port)[ip].timer.rem = 0

\* A lookup of the name for port that found the name registered as a key
\* answers from that key alone: nothing when NothingLive, and every other
\* entry of the table is left as it was.
ExactOnly(name, port, res) ==
  name \in DOMAIN domainMap =>
    /\ NothingLive(name, port) => res = NoHandler
    /\ \A k \in DOMAIN domainMap \ {name} :
         k \in DOMAIN domainMap' /\ domainMap'[k] = domainMap[k]

\* C19 as stated: findHandler for a name that is a key of the table, whose
\* bucket for the port holds no live handler or does not exist, finds
\* nothing and leaves the patterns unscanned, whatever live handlers the
\* patterns matching the name hold for that port.
C19_ExactShadowsPattern ==
  [][/\ \A t \in Tasks :
          (/\ task[t].pc = "range"
           /\ task'[t].pc \in {"idle", "forward"}
           /\ task[t].key = task[t].sub)
          => ExactOnly(task[t].sub, task[t].port, ret'.res)
     /\ (/\ \A t \in Tasks : task[t].pc = "idle" /\ task'[t].pc = "idle"
         /\ ret'.op \in {"findHandler", "ServeHTTPWithPort"})
        => ExactOnly(LookupKey(ret'), ret'.arg[2], ret'.res)
    ]_vars

\* The operation that returned last was AddSubdomain for a target port that
\* no listen port maps to.
AfterUnmappedAdd == ret.op = "AddSubdomain" /\ ret.arg[3] \notin MappedTargets

\* C20 as stated: after AddSubdomain the subdomain is a key of the table,
\* Exists is true for it and Subdomains lists it; when no listen port maps
\* to the target port the entry has no bucket and findHandler finds
\* nothing for the subdomain on any port.
C20_AddRegistersKey ==
  [][/\ ret'.op = "AddSubdomain" =>
          /\ ret'.arg[1] \in DOMAIN domainMap'
          /\ ret'.arg[3] \notin MappedTargets
             => DOMAIN domainMap'[ret'.arg[1]] = {}
     /\ ret.op = "AddSubdomain" =>
          /\ (ret'.op = "Exists" /\ ret'.arg[1] = ret.arg[1]) => ret'.res = TRUE
          /\ ret'.op = "Subdomains" => ret.arg[1] \in ret'.res
          /\ (/\ AfterUnmappedAdd
              /\ ret'.op = "findHandler"
              /\ ret'.arg[1] = ret.arg[1])
             => ret'.res = NoHandler
    ]_vars

\* C20 amended: after AddSubdomain the subdomain is a key of the table,
\* Exists is true for it and Subdomains lists it; when no listen port maps
\* to the target port the call makes no bucket: the entry is the one the
\* key had, or an empty one for a new key, and findHandler finds nothing
\* for the subdomain on any port when the entry has no bucket.
C20_AddRegistersKeyNoNewBucket ==
  [][/\ ret'.op = "AddSubdomain" =>
          /\ ret'.arg[1] \in DOMAIN domainMap'
          /\ ret'.arg[3] \notin MappedTargets
             => domainMap'[ret'.arg[1]] = AddStart(domainMap, ret'.arg[1])
     /\ ret.op = "AddSubdomain" =>
          /\ (ret'.op = "Exists" /\ ret'.arg[1] = ret.arg[1]) => ret'.res = TRUE
          /\ ret'.op = "Subdomains" => ret.arg[1] \in ret'.res
          /\ (/\ AfterUnmappedAdd
              /\ DOMAIN domainMap[ret.arg[1]] = {}
              /\ ret'.op = "findHandler"
              /\ ret'.arg[1] = ret.arg[1])
             => ret'.res = NoHandler
    ]_vars

\* C20 witness: AddSubdomain for the unmapped target port has registered a
\* key with no bucket while a pattern that matches the key holds a live
\* handler.
C20_Witness ==
  /\ AfterUnmappedAdd
  /\ ret.arg[1] \in DOMAIN domainMap
  /\ DOMAIN domainMap[ret.arg[1]] = {}
  /\ \E s \in TableSlots(domainMap) :
       /\ PathMatch(s[1], ret.arg[1])
       /\ alive(domainMap[s[1]][s[2]][s[3]])

====
